---- MODULE Spec2Model ----
(***************************************************************************)
(* Model of apt_hunter: the search-URL builder get_search_url and the      *)
(* crawl pipeline scrape_apartments (pagination walker, listing extractor, *)
(* unit scraper, normalizer, CSV writer).                                  *)
(*                                                                         *)
(* Text is a sequence of one-character strings.  A Python value that may   *)
(* be None is a record [none, str]: None has none = TRUE.                  *)
(***************************************************************************)
EXTENDS Integers, Sequences, FiniteSets, TLC

VARIABLES
    \* ---- get_search_url: arguments, locals and outcome ----
    args,          \* [city, state, zip_code, beds, baths, min_price, max_price]
    location,      \* local "location"      (<<>> while unset)
    price_range,   \* local "price_range"   (<<>> while unset)
    rooms,         \* local "rooms"         (<<>> while unset)
    ret,           \* [status, exc, url]: "pending" | "returned" | "raised"
    \* ---- scrape_apartments and the functions it calls ----
    pc,            \* position of the run
    exc,           \* [name, at]: the exception that ended the run, if any
    soup,          \* scrape_apartments' first results page
    wsoup,         \* "soup" of the innermost get_paginated_urls call
    dsoup,         \* "soup" of get_availability
    depth,         \* number of nested get_paginated_urls calls
    returned,      \* TRUE once get_paginated_urls has returned its list
    urls,          \* url_list, the list get_paginated_urls fills
    ci,            \* position of get_div_apartments' loop over url_list
    apartment_divs,\* div_apartments_list: one ResultSet per results page
    apartment_urls,\* result of get_apartment_urls
    ai,            \* position of scrape_apartments' loop over apartment_urls
    address,       \* result of get_address for the current listing
    units,         \* result of get_availability for the current listing
    all_units,     \* units accumulated over the listings
    csv,           \* apartments.csv: [writes, rows]
    fetched        \* URLs requested over the network, in order

urlvars == <<args, location, price_range, rooms, ret>>
crawlvars == <<pc, exc, soup, wsoup, dsoup, depth, returned, urls, ci, apartment_divs,
               apartment_urls, ai, address, units, all_units, csv, fetched>>
vars == <<urlvars, crawlvars>>

\* ------------------------------------------------------------------------
\* Python values
\* ------------------------------------------------------------------------
None == [none |-> TRUE, str |-> <<>>]
Str(s) == [none |-> FALSE, str |-> s]

\* bool(v) for v a str or None
Truthy(v) == ~v.none /\ v.str # <<>>

\* str(v) as str.format renders it
PyStr(v) == IF v.none THEN <<"N", "o", "n", "e">> ELSE v.str

\* Variant of Replace that stops after the first occurrence
RECURSIVE ReplaceFirst(_, _, _)
ReplaceFirst(s, old, new) ==
    IF s = <<>> THEN <<>>
    ELSE IF Head(s) = old THEN <<new>> \o Tail(s)
    ELSE <<Head(s)>> \o ReplaceFirst(Tail(s), old, new)

\* s.replace(old, new) for one-character old and new: every occurrence
RECURSIVE Replace(_, _, _)
Replace(s, old, new) ==
    IF s = <<>> THEN <<>>
    ELSE (IF Head(s) = old THEN <<new>> ELSE <<Head(s)>>)
         \o Replace(Tail(s), old, new)

\* ------------------------------------------------------------------------
\* Text literals of get_search_url
\* ------------------------------------------------------------------------
domain == <<"h","t","t","p","s",":","/","/","w","w","w",".",
            "a","p","a","r","t","m","e","n","t","s",".","c","o","m","/">>
T_to == <<"-","t","o">>
T_over == <<"o","v","e","r">>
T_under == <<"u","n","d","e","r">>
T_studios == <<"s","t","u","d","i","o","s">>
T_bedrooms == <<"-","b","e","d","r","o","o","m","s","-">>
T_bathrooms == <<"-","b","a","t","h","r","o","o","m","s","-">>
T_dash == <<"-">>
T_slash == <<"/">>

\* "{0}-{1}-{2}/".format(a, b, c)
FormatLocation(a, b, c) ==
    PyStr(a) \o T_dash \o PyStr(b) \o T_dash \o PyStr(c) \o T_slash

\* "{0}-{1}/".format(a, b)
FormatPriceRange(a, b) == PyStr(a) \o T_dash \o PyStr(b) \o T_slash

\* "{0}{1}".format(*fargs): IndexError unless two arguments are supplied
FormatRooms(fargs) ==
    IF Len(fargs) < 2
    THEN [exc |-> "IndexError", val |-> <<>>]
    ELSE [exc |-> "", val |-> PyStr(fargs[1]) \o PyStr(fargs[2])]

\* lines 28-35: the price_range portion
PriceRange(min_price, max_price) ==
    IF Truthy(min_price)
    THEN FormatPriceRange(Str(min_price.str \o T_to), max_price)
    ELSE IF max_price.none /\ Truthy(min_price)
    THEN FormatPriceRange(Str(T_over), min_price)
    ELSE FormatPriceRange(Str(T_under), max_price)

\* Variant of Rooms without the "studios" special case of line 43
Rooms_NoStudios(beds, baths) ==
    IF Truthy(beds) /\ Truthy(baths)
    THEN FormatRooms(<<Str(beds.str \o T_bedrooms),
                       Str(baths.str \o T_bathrooms)>>)
    ELSE IF beds.none
    THEN IF Truthy(baths)
         THEN [exc |-> "NameError", val |-> <<>>]
         ELSE FormatRooms(<<>>)
    ELSE FormatRooms(<<Str(beds.str \o T_bedrooms)>>)

\* lines 37-58: the rooms portion; the name "_" at line 50 is unbound
Rooms(beds, baths) ==
    IF Truthy(beds) /\ Truthy(baths)
    THEN IF beds.str = T_studios
         THEN FormatRooms(<<Str(beds.str \o T_dash),
                            Str(baths.str \o T_bathrooms)>>)
         ELSE FormatRooms(<<Str(beds.str \o T_bedrooms),
                            Str(baths.str \o T_bathrooms)>>)
    ELSE IF beds.none
    THEN IF Truthy(baths)
         THEN [exc |-> "NameError", val |-> <<>>]
         ELSE FormatRooms(<<>>)
    ELSE IF beds.str = T_studios
         THEN FormatRooms(<<Str(beds.str \o T_dash)>>)
         ELSE FormatRooms(<<Str(beds.str \o T_bedrooms)>>)

\* ------------------------------------------------------------------------
\* Inputs of get_search_url
\* ------------------------------------------------------------------------
T_los_angeles == <<"l","o","s"," ","a","n","g","e","l","e","s">>
T_salt_lake_city == <<"s","a","l","t"," ","l","a","k","e"," ","c","i","t","y">>
T_reno == <<"r","e","n","o">>
T_ca == <<"c","a">>
T_ut == <<"u","t">>
T_90034 == <<"9","0","0","3","4">>
T_1 == <<"1">>
T_2 == <<"2">>
T_1000 == <<"1","0","0","0">>
T_2500 == <<"2","5","0","0">>

Cities == {T_los_angeles, T_salt_lake_city, T_reno}
States == {T_ca, T_ut}
ZipCodes == {T_90034}
BedsValues == {None, Str(<<>>), Str(T_2), Str(T_studios)}
BathsValues == {None, Str(<<>>), Str(T_1), Str(T_2)}
MinPrices == {None, Str(<<>>), Str(T_1000)}
MaxPrices == {None, Str(<<>>), Str(T_2500)}

\* ------------------------------------------------------------------------
\* Documents served to get_soup
\* ------------------------------------------------------------------------
RecursionLimit == 3          \* frames get_paginated_urls may nest

NoAnchor == "NoAnchor"       \* soup.find(...) found nothing: None
NoHref == "None"             \* tag.get('href') of a tag without href: None

search_url == "s0"
PageUrls == {"s0", "p1", "p2"}
DetailUrls == {"d1", "d2"}

\* the propertyInfo divs of a page; a div is NoAnchor (no title anchor)
\* or the value of its title anchor's get('href'): a URL, or None
EntriesOptions ==
    { <<>>,
      <<NoAnchor, "d1">>,
      <<"d2", NoAnchor, "d1">>,
      <<NoHref>> }

\* a results page: has a div of class paging, the href of its a.next,
\* its propertyInfo divs
ResultsPages ==
    [paging : BOOLEAN,
     next : {NoAnchor, NoHref} \cup PageUrls,
     entries : EntriesOptions]
NoSoup == [paging |-> FALSE, next |-> NoAnchor, entries |-> <<>>]

T_2_Beds == <<"2"," ","B","e","d","s">>
T_1_Bath == <<"1"," ","B","a","t","h">>

\* a tr of class rentalGridRow: the text of its td.beds and td.baths
\* (None: no such td), and whether some td carries no class attribute
RowOk == [beds |-> Str(T_2_Beds), baths |-> Str(T_1_Bath), noclass |-> FALSE]
RowNoBeds == [beds |-> None, baths |-> Str(T_1_Bath), noclass |-> FALSE]
RowNoClass == [beds |-> Str(T_2_Beds), baths |-> None, noclass |-> TRUE]

\* a listing page: text of div.propertyAddress (NoAnchor: no such div),
\* whether section.availabilitySection exists, and its rows
DetailPages ==
    [address : {NoAnchor, "addr"},
     available : {TRUE},
     rows : {<<>>, <<RowOk>>, <<RowOk, RowNoBeds>>, <<RowNoClass>>}]
    \cup [address : {NoAnchor, "addr"}, available : {FALSE}, rows : {<<>>}]
NoDetail == [address |-> NoAnchor, available |-> TRUE, rows |-> <<>>]

\* get_soup(url), lines 71-73: requests.get raises MissingSchema, a
\* ValueError, for the URL None; else the request fails or yields a page
GetSoup(url, pages) ==
    IF url = NoHref
    THEN {[exc |-> "MissingSchema", page |-> NoSoup]}
    ELSE {[exc |-> "ConnectionError", page |-> NoSoup]}
         \cup {[exc |-> "", page |-> p] : p \in pages}

IsValueError(e) == e \in {"ValueError", "MissingSchema"}

\* Variant of WalkStep that looks for a.next without asking for div.paging
WalkStep_NoPagingCheck(sp) ==
    IF sp.next = NoAnchor THEN "AttributeError" ELSE "follow"

\* lines 87-93: what one call of get_paginated_urls does with its soup
WalkStep(sp) ==
    IF sp.paging
    THEN IF sp.next = NoAnchor THEN "AttributeError" ELSE "follow"
    ELSE "ValueError"

\* Variant of DivUrls in which a div without the anchor ends the loop
RECURSIVE DivUrls_AbortOnMissing(_)
DivUrls_AbortOnMissing(result) ==
    IF result = <<>> THEN <<>>
    ELSE IF Head(result) = NoAnchor THEN <<>>
    ELSE <<Head(result)>> \o DivUrls_AbortOnMissing(Tail(result))

\* lines 135-141: the inner loop over one ResultSet
RECURSIVE DivUrls(_)
DivUrls(result) ==
    IF result = <<>> THEN <<>>
    ELSE IF Head(result) = NoAnchor THEN DivUrls(Tail(result))
    ELSE <<Head(result)>> \o DivUrls(Tail(result))

\* lines 131-143: get_apartment_urls
RECURSIVE ApartmentUrls(_)
ApartmentUrls(div_apartments_list) ==
    IF div_apartments_list = <<>> THEN <<>>
    ELSE DivUrls(Head(div_apartments_list))
         \o ApartmentUrls(Tail(div_apartments_list))

\* lines 174-180: the unit dicts of a listing page whose tds all have a class
UnitDicts(page, addr, url) ==
    [i \in 1..Len(page.rows) |->
        [beds |-> page.rows[i].beds, baths |-> page.rows[i].baths,
         address |-> addr, url |-> url]]

\* s[:1]
FirstChar(s) == IF s = <<>> THEN <<>> ELSE <<Head(s)>>

\* lines 192-196: process_availability on units that have both keys
Processed(us) ==
    [i \in 1..Len(us) |->
        [us[i] EXCEPT !.beds = Str(FirstChar(us[i].beds.str)),
                      !.baths = Str(FirstChar(us[i].baths.str))]]

\* Variant of LoopDone that leaves the loop one listing early
LoopDone_OneEarly(i, list) == i >= Len(list)

\* line 233: the for loop over apartment_urls is exhausted
LoopDone(i, list) == i > Len(list)

CrawlIdle ==
    /\ pc = "start"
    /\ exc = [name |-> "", at |-> ""]
    /\ soup = NoSoup
    /\ wsoup = NoSoup
    /\ dsoup = NoDetail
    /\ depth = 0
    /\ returned = FALSE
    /\ urls = <<>>
    /\ ci = 0
    /\ apartment_divs = <<>>
    /\ apartment_urls = <<>>
    /\ ai = 0
    /\ address = ""
    /\ units = <<>>
    /\ all_units = <<>>
    /\ csv = [writes |-> 0, rows |-> <<>>]
    /\ fetched = <<>>

Pending == [status |-> "pending", exc |-> "", url |-> <<>>]

UrlInit ==
    /\ args \in [city : Cities, state : States, zip_code : ZipCodes,
                 beds : BedsValues, baths : BathsValues,
                 min_price : MinPrices, max_price : MaxPrices]
    /\ location = <<>>
    /\ price_range = <<>>
    /\ rooms = <<>>
    /\ ret = Pending
    /\ CrawlIdle

\* get_search_url, lines 21-61
get_search_url ==
    /\ ret.status = "pending"
    /\ LET city_fmt == Replace(args.city, " ", "-")
           loc == FormatLocation(Str(city_fmt), Str(args.state),
                                 Str(args.zip_code))
           pr == PriceRange(args.min_price, args.max_price)
           rm == Rooms(args.beds, args.baths)
       IN /\ location' = loc
          /\ price_range' = pr
          /\ IF rm.exc # ""
             THEN /\ rooms' = <<>>
                  /\ ret' = [status |-> "raised", exc |-> rm.exc, url |-> <<>>]
             ELSE /\ rooms' = rm.val
                  /\ ret' = [status |-> "returned", exc |-> "",
                             url |-> domain \o loc \o rm.val \o pr]
    /\ UNCHANGED <<args, crawlvars>>

UrlNext == get_search_url

UrlSpec == UrlInit /\ [][UrlNext]_vars

\* ------------------------------------------------------------------------
\* scrape_apartments
\* ------------------------------------------------------------------------
Init ==
    /\ args = [city |-> T_los_angeles, state |-> T_ca, zip_code |-> T_90034,
               beds |-> Str(T_2), baths |-> Str(T_2),
               min_price |-> None, max_price |-> Str(T_2500)]
    /\ location = <<>>
    /\ price_range = <<>>
    /\ rooms = <<>>
    /\ ret = Pending
    /\ CrawlIdle

Raise(name, at) ==
    /\ pc' = "failed"
    /\ exc' = [name |-> name, at |-> at]

\* scrape_apartments, lines 228-230
scrape_apartments ==
    /\ pc = "start"
    /\ fetched' = Append(fetched, search_url)
    /\ \E o \in GetSoup(search_url, ResultsPages) :
          IF o.exc # ""
          THEN /\ Raise(o.exc, "scrape_apartments")
               /\ UNCHANGED soup
          ELSE /\ soup' = o.page
               /\ pc' = "get_div_apartments"
               /\ UNCHANGED exc
    /\ UNCHANGED <<urlvars, wsoup, dsoup, depth, returned, urls, ci,
                   apartment_divs, apartment_urls, ai, address, units,
                   all_units, csv>>

\* get_div_apartments, lines 108-113: up to the call of get_paginated_urls
get_div_apartments ==
    /\ pc = "get_div_apartments"
    /\ apartment_divs' = <<soup.entries>>
    /\ urls' = <<>>
    /\ wsoup' = soup
    /\ depth' = 1
    /\ pc' = "get_paginated_urls"
    /\ UNCHANGED <<urlvars, exc, soup, dsoup, returned, ci, apartment_urls,
                   ai, address, units, all_units, csv, fetched>>

\* the except clause of line 94-95: every frame returns the same list
WalkReturn ==
    /\ pc' = "collect"
    /\ returned' = TRUE
    /\ ci' = 1
    /\ UNCHANGED <<exc, wsoup, depth, urls>>

\* get_paginated_urls, lines 84-95: one call
get_paginated_urls ==
    /\ pc = "get_paginated_urls"
    /\ LET step == WalkStep(wsoup) IN
       IF step = "ValueError"
       THEN WalkReturn /\ UNCHANGED fetched
       ELSE IF step = "AttributeError"
       THEN /\ Raise("AttributeError", "get_paginated_urls")
            /\ UNCHANGED <<wsoup, depth, returned, urls, ci, fetched>>
       ELSE \E o \in GetSoup(wsoup.next, ResultsPages) :
               IF IsValueError(o.exc)
               THEN WalkReturn /\ UNCHANGED fetched
               ELSE /\ fetched' = Append(fetched, wsoup.next)
                    /\ IF o.exc # ""
                       THEN /\ Raise(o.exc, "get_paginated_urls")
                            /\ UNCHANGED <<wsoup, depth, returned, urls, ci>>
                       ELSE /\ urls' = Append(urls, wsoup.next)
                            /\ IF depth >= RecursionLimit
                               THEN /\ Raise("RecursionError",
                                             "get_paginated_urls")
                                    /\ UNCHANGED <<wsoup, depth>>
                               ELSE /\ wsoup' = o.page
                                    /\ depth' = depth + 1
                                    /\ UNCHANGED <<pc, exc>>
                            /\ UNCHANGED <<returned, ci>>
    /\ UNCHANGED <<urlvars, soup, dsoup, apartment_divs, apartment_urls, ai,
                   address, units, all_units, csv>>

\* get_div_apartments, lines 113-120: the loop over url_list and the return
get_div_apartments_pages ==
    /\ pc = "collect"
    /\ IF urls = <<>> \/ ci > Len(urls)
       THEN /\ pc' = "get_apartment_urls"
            /\ wsoup' = NoSoup
            /\ depth' = 0
            /\ returned' = FALSE
            /\ urls' = <<>>
            /\ ci' = 0
            /\ UNCHANGED <<exc, apartment_divs, fetched>>
       ELSE /\ fetched' = Append(fetched, urls[ci])
            /\ \E o \in GetSoup(urls[ci], ResultsPages) :
                  IF o.exc # ""
                  THEN /\ Raise(o.exc, "get_div_apartments")
                       /\ UNCHANGED <<apartment_divs, ci>>
                  ELSE /\ apartment_divs' =
                              Append(apartment_divs, o.page.entries)
                       /\ ci' = ci + 1
                       /\ UNCHANGED <<pc, exc>>
            /\ UNCHANGED <<wsoup, depth, returned, urls>>
    /\ UNCHANGED <<urlvars, soup, dsoup, apartment_urls, ai, address, units,
                   all_units, csv>>

\* get_apartment_urls, lines 131-143, and the start of the loop of line 233
get_apartment_urls ==
    /\ pc = "get_apartment_urls"
    /\ apartment_urls' = ApartmentUrls(apartment_divs)
    /\ ai' = 1
    /\ pc' = "loop"
    /\ UNCHANGED <<urlvars, exc, soup, wsoup, dsoup, depth, returned, urls,
                   ci, apartment_divs, address, units, all_units, csv,
                   fetched>>

\* get_address, lines 152-155, for the listing at hand
get_address ==
    /\ pc = "loop"
    /\ ~LoopDone(ai, apartment_urls)
    /\ LET url == apartment_urls[ai] IN
       \E o \in GetSoup(url, DetailPages) :
          /\ fetched' = IF url = NoHref THEN fetched ELSE Append(fetched, url)
          /\ IF o.exc # ""
             THEN Raise(o.exc, "get_address") /\ UNCHANGED address
             ELSE IF o.page.address = NoAnchor
             THEN Raise("AttributeError", "get_address") /\ UNCHANGED address
             ELSE /\ address' = o.page.address
                  /\ pc' = "get_availability"
                  /\ UNCHANGED exc
    /\ UNCHANGED <<urlvars, soup, wsoup, dsoup, depth, returned, urls, ci,
                   apartment_divs, apartment_urls, ai, units, all_units, csv>>

\* get_availability, lines 165-181
get_availability ==
    /\ pc = "get_availability"
    /\ LET url == apartment_urls[ai] IN
       \E o \in GetSoup(url, DetailPages) :
          /\ fetched' = Append(fetched, url)
          /\ IF o.exc # ""
             THEN Raise(o.exc, "get_availability") /\ UNCHANGED <<dsoup, units>>
             ELSE /\ dsoup' = o.page
                  /\ IF ~o.page.available
                     THEN /\ Raise("AttributeError", "get_availability")
                          /\ UNCHANGED units
                     ELSE IF \E i \in 1..Len(o.page.rows) :
                                 o.page.rows[i].noclass
                     THEN /\ Raise("TypeError", "get_availability")
                          /\ UNCHANGED units
                     ELSE /\ units' = UnitDicts(o.page, address, url)
                          /\ pc' = "process_availability"
                          /\ UNCHANGED exc
    /\ UNCHANGED <<urlvars, soup, wsoup, depth, returned, urls, ci,
                   apartment_divs, apartment_urls, ai, address, all_units,
                   csv>>

\* process_availability, lines 192-196, and lines 237-238 of the loop;
\* address and units are not read again before they are reassigned
process_availability ==
    /\ pc = "process_availability"
    /\ IF \E i \in 1..Len(units) : units[i].beds.none \/ units[i].baths.none
       THEN /\ Raise("KeyError", "process_availability")
            /\ UNCHANGED <<dsoup, ai, address, units, all_units>>
       ELSE /\ all_units' = all_units \o Processed(units)
            /\ ai' = ai + 1
            /\ pc' = "loop"
            /\ dsoup' = NoDetail
            /\ address' = ""
            /\ units' = <<>>
            /\ UNCHANGED exc
    /\ UNCHANGED <<urlvars, soup, wsoup, depth, returned, urls, ci,
                   apartment_divs, apartment_urls, csv, fetched>>

\* write_availability_csv, lines 206-216, called at line 240
write_availability_csv ==
    /\ pc = "loop"
    /\ LoopDone(ai, apartment_urls)
    /\ csv' = [writes |-> csv.writes + 1, rows |-> all_units]
    /\ pc' = "done"
    /\ UNCHANGED <<urlvars, exc, soup, wsoup, dsoup, depth, returned, urls,
                   ci, apartment_divs, apartment_urls, ai, address, units,
                   all_units, fetched>>

Next ==
    \/ scrape_apartments
    \/ get_div_apartments
    \/ get_paginated_urls
    \/ get_div_apartments_pages
    \/ get_apartment_urls
    \/ get_address
    \/ get_availability
    \/ process_availability
    \/ write_availability_csv

Spec == Init /\ [][Next]_vars

\* ------------------------------------------------------------------------
\* Properties of get_search_url
\* ------------------------------------------------------------------------
Called == ret.status # "pending"

\* TRUE iff sub occurs in s as a contiguous run
Contains(s, sub) ==
    \E i \in 0..(Len(s) - Len(sub)) : SubSeq(s, i + 1, i + Len(sub)) = sub

\* C1: with exactly one of min_price / max_price set, the price part is
\* "under-<max>/" when only max_price is set and "over-<min>/" when only
\* min_price is set (max_price None).
C1_OneSidedPrice ==
    ret.status = "returned" =>
        /\ (~Truthy(args.min_price) /\ Truthy(args.max_price)
                => price_range = T_under \o T_dash \o args.max_price.str \o T_slash)
        /\ (Truthy(args.min_price) /\ args.max_price.none
                => price_range = T_over \o T_dash \o args.min_price.str \o T_slash)

\* C2: with only one of beds / baths given the call returns and the rooms
\* part is that portion alone; with neither given it returns and the rooms
\* part is empty.
C2_PartialRooms ==
    Called =>
        /\ (Truthy(args.beds) /\ args.baths.none
                => /\ ret.status = "returned"
                   /\ rooms = IF args.beds.str = T_studios
                              THEN T_studios \o T_dash
                              ELSE args.beds.str \o T_bedrooms)
        /\ (args.beds.none /\ Truthy(args.baths)
                => /\ ret.status = "returned"
                   /\ rooms = args.baths.str \o T_bathrooms)
        /\ (args.beds.none /\ args.baths.none
                => /\ ret.status = "returned"
                   /\ rooms = <<>>)

Hyphenated(s) == [i \in 1..Len(s) |-> IF s[i] = " " THEN "-" ELSE s[i]]

T_example_url ==
    <<"h","t","t","p","s",":","/","/","w","w","w",".",
      "a","p","a","r","t","m","e","n","t","s",".","c","o","m","/",
      "l","o","s","-","a","n","g","e","l","e","s","-","c","a","-",
      "9","0","0","3","4","/",
      "2","-","b","e","d","r","o","o","m","s","-",
      "2","-","b","a","t","h","r","o","o","m","s","-",
      "u","n","d","e","r","-","2","5","0","0","/">>

IsExampleQuery ==
    args = [city |-> T_los_angeles, state |-> T_ca, zip_code |-> T_90034,
            beds |-> Str(T_2), baths |-> Str(T_2),
            min_price |-> None, max_price |-> Str(T_2500)]

C3_LastPageReturns ==
    [][(pc = "get_paginated_urls" /\ wsoup.paging /\ wsoup.next = NoAnchor)
          => (pc' = "collect" /\ returned' /\ urls' = urls
              /\ exc'.name = "")]_vars

\* C4: when a "next" link points to a URL already visited in the walk,
\* the walk stops there: no URL occurs twice in the accumulated sequence.
C4_NoRepeatedUrl ==
    \A i, j \in 1..Len(urls) : i # j => urls[i] # urls[j]

C6_AbsentAvailabilityIsEmpty ==
    ~dsoup.available => (pc # "failed" /\ units = <<>>)

RECURSIVE Flatten(_)
Flatten(ss) == IF ss = <<>> THEN <<>> ELSE Head(ss) \o Flatten(Tail(ss))

HasAnchor(d) == d # NoAnchor

\* C7: get_apartment_urls returns the links of exactly the entries that
\* have the title anchor, in page order and then entry order; an entry
\* without the anchor contributes nothing and aborts nothing.
C7_ExtractsInOrder ==
    /\ ai > 0 => apartment_urls = SelectSeq(Flatten(apartment_divs), HasAnchor)
    /\ exc.at # "get_apartment_urls"

C7_Witness ==
    /\ pc = "loop"
    /\ apartment_divs = << <<"d2", NoAnchor, "d1">>, <<NoAnchor, "d1">> >>
    /\ apartment_urls = <<"d2", "d1", "d1">>

IsDetailUrl(u) == u \in DetailUrls

\* every element of s twice, in order
Twice(s) == [i \in 1..(2 * Len(s)) |-> s[(i + 1) \div 2]]

\* C10: the output file is written at most once, and only after every
\* discovered listing was fetched, scraped and normalized; a run that
\* failed has written nothing.
C10_WriteOnceAtEnd ==
    /\ csv.writes <= 1
    /\ csv.writes = 1 =>
          /\ pc = "done"
          /\ ai = Len(apartment_urls) + 1
          /\ SelectSeq(fetched, IsDetailUrl) = Twice(apartment_urls)
          /\ csv.rows = all_units
          /\ \A i \in 1..Len(all_units) :
                /\ Len(all_units[i].beds.str) <= 1
                /\ Len(all_units[i].baths.str) <= 1
    /\ pc = "failed" => csv = [writes |-> 0, rows |-> <<>>]

C10_Witness ==
    /\ pc = "done"
    /\ csv.writes = 1
    /\ apartment_urls = <<"d2", "d1", "d1">>
    /\ Len(csv.rows) >= 2
====
